---- MODULE Spec2Model ----
(***************************************************************************)
(* Model of the 12-seat werewolf engine MultiCharacterEngine (src/app.py). *)
(* A scenario is a record holding the fields of ScenarioState and of the   *)
(* game_state dictionary; every engine method is a set-valued operator     *)
(* giving the scenarios the method can leave behind (one per outcome of    *)
(* the random module), and an action applies it to multi_scenarios[sid].   *)
(*                                                                         *)
(* Role strings of the source are rendered in English:                     *)
(*   werewolf = "狼人"  seer = "预言家"  witch = "女巫"                      *)
(*   hunter = "猎人"    idiot = "白痴"   villager = "平民"                   *)
(* Persona names are pairwise distinct, as are persona ids.                *)
(***************************************************************************)
EXTENDS Integers, Sequences, FiniteSets

VARIABLES multi_scenarios, last

vars == <<multi_scenarios, last>>

(***************************************************************************)
(* Bounds of the model.                                                    *)
(***************************************************************************)
\* random.choice / random.sample draw among the first Breadth elements
Breadth == 1
\* a resolver call is taken when the scenario_log it leaves has at most
\* MaxLog entries
MaxLog == 4
\* random.randint(2, 4) draws at most MaxCandidates
MaxCandidates == 2
\* advance_phase from voting is taken while round_count is below MaxRound
MaxRound == 2
\* number of outcomes of random.shuffle that Init draws from
NumDeals == 2
\* with several sessions, a call is taken while the phase advances plus
\* twice the ledger entries of all sessions together are below
\* MaxSessionWork, and when it leaves them at most MaxSessionWork
MaxSessionWork == 6

\* the AI service answers again after a failure at most MaxRecoveries times
MaxRecoveries == 0

\* the replies of one tally vote all name the same seat, one of the first
\* MaxNamed living seats
MaxNamed == 2

\* the generator of the random module is seeded with one of 0..MaxSeed
MaxSeed == 5

(***************************************************************************)
(* Program constants.                                                      *)
(***************************************************************************)
NumPlayers == 12

None == "None"

Sessions == {"s1"}

SeatSeq == [i \in 1..NumPlayers |-> i]

CharacterIds == <<"c1", "c2", "c3", "c4", "c5", "c6",
                  "c7", "c8", "c9", "c10", "c11", "c12">>

CharacterNames == <<"n1", "n2", "n3", "n4", "n5", "n6",
                    "n7", "n8", "n9", "n10", "n11", "n12">>

GodRoles == {"seer", "witch", "hunter", "idiot"}

standard_roles_short ==
    <<"werewolf", "werewolf", "werewolf",
      "seer", "witch", "hunter", "idiot",
      "villager", "villager", "villager", "villager", "villager">>

standard_roles ==
    <<"werewolf", "werewolf", "werewolf", "werewolf",
      "seer", "witch", "hunter", "idiot",
      "villager", "villager", "villager", "villager">>

(***************************************************************************)
(* Helpers for Python list idioms.                                         *)
(***************************************************************************)
Min(a, b) == IF a < b THEN a ELSE b

\* random.choice(xs): the elements it may return
Choice(xs) == {xs[i] : i \in 1..Min(Len(xs), Breadth)}

\* list.remove(x): drops the first occurrence of x
RECURSIVE Remove(_, _)
Remove(xs, x) ==
    IF xs = <<>> THEN <<>>
    ELSE IF Head(xs) = x THEN Tail(xs)
    ELSE <<Head(xs)>> \o Remove(Tail(xs), x)

\* random.sample(xs, k): ordered draws without replacement
RECURSIVE Sample(_, _)
Sample(xs, k) ==
    IF k = 0 THEN {<<>>}
    ELSE UNION {{<<x>> \o rest : rest \in Sample(Remove(xs, x), k - 1)} :
                x \in Choice(xs)}

Range(xs) == {xs[i] : i \in 1..Len(xs)}

\* next((p for p in scenario.players if p.character_name == name), None)
PlayerByName(s, name) ==
    LET hits == {i \in 1..Len(s.players) : s.players[i].character_name = name}
    IN  IF hits = {} THEN 0
        ELSE CHOOSE i \in hits : \A j \in hits : i <= j

(***************************************************************************)
(* create_werewolf_scenario                                                *)
(***************************************************************************)
\* the k-th outcome of random.shuffle(standard_roles): a rotation of the
\* deck for k up to 12, a rotation of the reversed deck beyond
Shuffle(k) ==
    LET off == (4 * (k - 1) + 3 * ((k - 1) \div 3)) % NumPlayers
        deck == IF k <= NumPlayers THEN standard_roles
                ELSE [i \in 1..NumPlayers |->
                         standard_roles[NumPlayers + 1 - i]]
    IN  [i \in 1..NumPlayers |-> deck[((i - 1 + off) % NumPlayers) + 1]]

GamePlayer(i, role) ==
    [character_id |-> CharacterIds[i],
     character_name |-> CharacterNames[i],
     role |-> role,
     is_alive |-> TRUE]

CreateWerewolfScenarioStale(roles) ==
    [scenario_type |-> "werewolf",
     phase |-> "first_night",
     round_count |-> 1,
     players |-> [i \in 1..NumPlayers |-> GamePlayer(i, roles[i])],
     eliminated_players |-> <<>>,
     scenario_log |-> <<>>,
     is_active |-> TRUE,
     sheriff |-> None,
     sheriff_candidates |-> <<>>,
     antidote |-> TRUE,
     poison |-> TRUE,
     killed_tonight |-> None,
     saved_tonight |-> None,
     poisoned_tonight |-> None,
     seer_checks |-> <<>>,
     hunter_can_shoot |-> FALSE,
     idiot_revealed |-> FALSE]

CreateWerewolfScenario(roles) ==
    [scenario_type |-> "werewolf",
     phase |-> "first_night",
     round_count |-> 1,
     players |-> [i \in 1..NumPlayers |-> GamePlayer(i, roles[i])],
     eliminated_players |-> <<>>,
     scenario_log |-> <<>>,
     is_active |-> TRUE,
     sheriff |-> None,
     sheriff_candidates |-> <<>>,
     antidote |-> TRUE,
     poison |-> TRUE,
     killed_tonight |-> None,
     saved_tonight |-> None,
     poisoned_tonight |-> None,
     seer_checks |-> <<>>,
     hunter_can_shoot |-> TRUE,
     idiot_revealed |-> FALSE]

\* the personas character_manager.get_character resolves, and their names
KnownCharacters == Range(CharacterIds)

PersonaName(char_id) ==
    IF char_id \in Range(CharacterIds)
    THEN CharacterNames[CHOOSE i \in 1..NumPlayers : CharacterIds[i] = char_id]
    ELSE None

\* the value create_werewolf_scenario returns
CreateReturnsCountOnly(character_ids) == Len(character_ids) = NumPlayers

CreateReturns(character_ids) ==
    /\ Len(character_ids) = NumPlayers
    /\ \A k \in 1..Len(character_ids) : character_ids[k] \in KnownCharacters

\* the scenario create_werewolf_scenario registers for character_ids
CreateScenarioFrom(character_ids, roles) ==
    [CreateWerewolfScenario(roles) EXCEPT
        !.players = [i \in 1..NumPlayers |->
                        [character_id |-> character_ids[i],
                         character_name |-> PersonaName(character_ids[i]),
                         role |-> roles[i],
                         is_alive |-> TRUE]]]

RegisterEverywhere(registry, session_id, scenario) ==
    [sid \in DOMAIN registry \cup {session_id} |-> scenario]

\* multi_scenarios[session_id] = scenario
Register(registry, session_id, scenario) ==
    [sid \in DOMAIN registry \cup {session_id} |->
        IF sid = session_id THEN scenario ELSE registry[sid]]

(***************************************************************************)
(* Queries                                                                 *)
(***************************************************************************)
get_alive_players(s) ==
    SelectSeq(SeatSeq, LAMBDA i : s.players[i].is_alive)

get_players_by_role(s, role) ==
    SelectSeq(SeatSeq,
              LAMBDA i : s.players[i].role = role /\ s.players[i].is_alive)

SetAlive(s, i, b) ==
    [s EXCEPT !.players[i].is_alive = b]

Log(s, entry) ==
    [s EXCEPT !.scenario_log = Append(@, entry)]

(***************************************************************************)
(* advance_phase / _advance_werewolf_phase                                 *)
(***************************************************************************)
AdvanceRoundBad(s) ==
    IF s.phase \in {"voting", "night"} THEN s.round_count + 1
    ELSE s.round_count

AdvanceRound(s) ==
    IF s.phase = "first_night" THEN 1
    ELSE IF s.phase = "voting" THEN s.round_count + 1
    ELSE s.round_count

AdvancePhaseTableBad(phase) ==
    CASE phase = "first_night" -> "first_day"
      [] phase = "first_day" -> "sheriff_election"
      [] phase = "sheriff_election" -> "day_discussion"
      [] phase = "day_discussion" -> "voting"
      [] phase = "voting" -> "night"
      [] phase = "night" -> "first_day"
      [] OTHER -> phase

AdvancePhaseTable(phase) ==
    CASE phase = "first_night" -> "first_day"
      [] phase = "first_day" -> "sheriff_election"
      [] phase = "sheriff_election" -> "day_discussion"
      [] phase = "day_discussion" -> "voting"
      [] phase = "voting" -> "night"
      [] phase = "night" -> "day_discussion"
      [] OTHER -> phase

\* the scenario after _advance_werewolf_phase
AdvanceWerewolfPhase(s) ==
    [s EXCEPT !.phase = AdvancePhaseTable(s.phase),
              !.round_count = AdvanceRound(s)]

\* the value _advance_werewolf_phase returns
AdvanceReturns(s) ==
    s.phase \in {"first_night", "first_day", "sheriff_election",
                 "day_discussion", "voting", "night"}

(***************************************************************************)
(* check_game_end                                                          *)
(***************************************************************************)
WerewolvesOf(s, xs) == SelectSeq(xs, LAMBDA i : s.players[i].role = "werewolf")

GoodOf(s, xs) == SelectSeq(xs, LAMBDA i : s.players[i].role /= "werewolf")

GodsOf(s, xs) == SelectSeq(xs, LAMBDA i : s.players[i].role \in GodRoles)

CiviliansOf(s, xs) == SelectSeq(xs, LAMBDA i : s.players[i].role = "villager")

\* the message check_game_end returns, None when it returns None
CheckGameEndResultStrict(s) ==
    LET alive_players == get_alive_players(s)
        werewolves == WerewolvesOf(s, alive_players)
        good_players == GoodOf(s, alive_players)
        civilians == CiviliansOf(s, alive_players)
    IN  IF s.scenario_type /= "werewolf" THEN None
        ELSE IF werewolves = <<>> THEN "good"
        ELSE IF Len(werewolves) > Len(good_players) THEN "werewolf_count"
        ELSE IF civilians = <<>> /\ Len(alive_players) > 0
                /\ Len(werewolves) > 0 THEN "werewolf_civilians"
        ELSE None

CheckGameEndResult(s) ==
    LET alive_players == get_alive_players(s)
        werewolves == WerewolvesOf(s, alive_players)
        good_players == GoodOf(s, alive_players)
        gods == GodsOf(s, alive_players)
        civilians == CiviliansOf(s, alive_players)
    IN  IF s.scenario_type /= "werewolf" THEN None
        ELSE IF werewolves = <<>> THEN "good"
        ELSE IF Len(werewolves) >= Len(good_players) THEN "werewolf_count"
        ELSE IF gods = <<>> /\ Len(alive_players) > 0 THEN "werewolf_gods"
        ELSE IF civilians = <<>> /\ Len(alive_players) > 0
                /\ Len(werewolves) > 0 THEN "werewolf_civilians"
        ELSE None

CheckGameEndClosesPhase(s) ==
    IF CheckGameEndResult(s) /= None
    THEN [s EXCEPT !.is_active = FALSE, !.phase = "game_over"]
    ELSE s

CheckGameEndKeepsActive(s) == s

\* the scenario after check_game_end
CheckGameEnd(s) ==
    IF CheckGameEndResult(s) /= None THEN [s EXCEPT !.is_active = FALSE]
    ELSE s

(***************************************************************************)
(* process_night_actions and its steps                                     *)
(***************************************************************************)
\* the sub-list of xs at the index set I, in list order
RECURSIVE SubList(_, _)
SubList(xs, I) ==
    IF xs = <<>> THEN <<>>
    ELSE (IF 1 \in I THEN <<Head(xs)>> ELSE <<>>)
         \o SubList(Tail(xs), {i - 1 : i \in I \ {1}})

\* _choose_werewolf_target: the seats it may return.  confirmed_gods is the
\* sub-list of living gods whose random.random() < 0.3 draw succeeded.
ChooseWerewolfTarget(good_players, s) ==
    LET gods == GodsOf(s, good_players)
        non_idiot_players ==
            SelectSeq(good_players, LAMBDA i : s.players[i].role /= "idiot")
        pool == IF non_idiot_players /= <<>> /\ Len(good_players) > 2
                THEN non_idiot_players ELSE good_players
    IN  UNION {IF SubList(gods, I) /= <<>> THEN Choice(SubList(gods, I))
               ELSE Choice(pool) : I \in SUBSET (1..Len(gods))}

KillCandidates(s) == GoodOf(s, get_alive_players(s))

ProcessWerewolfKillByDeadWolves(s) ==
    LET werewolves == WerewolvesOf(s, SeatSeq)
        good_players == KillCandidates(s)
    IN  IF werewolves = <<>> THEN {s}
        ELSE IF good_players = <<>> THEN {s}
        ELSE {Log([s EXCEPT !.killed_tonight =
                                s.players[target].character_name],
                  [phase |-> "werewolf_kill", round |-> s.round_count,
                   target |-> s.players[target].character_name]) :
              target \in ChooseWerewolfTarget(good_players, s)}

ProcessWerewolfKill(s) ==
    LET werewolves == get_players_by_role(s, "werewolf")
        good_players == KillCandidates(s)
    IN  IF werewolves = <<>> THEN {s}
        ELSE IF good_players = <<>> THEN {s}
        ELSE {Log([s EXCEPT !.killed_tonight =
                                s.players[target].character_name],
                  [phase |-> "werewolf_kill", round |-> s.round_count,
                   target |-> s.players[target].character_name]) :
              target \in ChooseWerewolfTarget(good_players, s)}

ChooseSeerTargetAgain(other_players, s) == Choice(other_players)

\* _choose_seer_target: the seats it may return
ChooseSeerTarget(other_players, s) ==
    LET checked_names == {s.seer_checks[k].target :
                          k \in 1..Len(s.seer_checks)}
        unchecked_players ==
            SelectSeq(other_players,
                   LAMBDA i : s.players[i].character_name \notin checked_names)
    IN  IF unchecked_players /= <<>> THEN Choice(unchecked_players)
        ELSE Choice(other_players)

SeersBad(s) == SelectSeq(SeatSeq, LAMBDA i : s.players[i].role = "seer")

Seers(s) == get_players_by_role(s, "seer")

ProcessSeerCheckAmongAll(s) ==
    LET seers == Seers(s)
        seer == seers[1]
        alive_players == get_alive_players(s)
        other_players == alive_players
    IN  IF seers = <<>> THEN {s}
        ELSE IF other_players = <<>> THEN {s}
        ELSE {LET result == IF s.players[target].role = "werewolf"
                            THEN "werewolf" ELSE "good"
                  name == s.players[target].character_name
              IN  Log([s EXCEPT !.seer_checks =
                          Append(@, [target |-> name, result |-> result,
                                     night |-> s.round_count])],
                      [phase |-> "seer_check", round |-> s.round_count,
                       target |-> name, result |-> result]) :
              target \in ChooseSeerTarget(other_players, s)}

ProcessSeerCheck(s) ==
    LET seers == Seers(s)
        seer == seers[1]
        alive_players == get_alive_players(s)
        other_players == SelectSeq(alive_players, LAMBDA i : i /= seer)
    IN  IF seers = <<>> THEN {s}
        ELSE IF other_players = <<>> THEN {s}
        ELSE {LET result == IF s.players[target].role = "werewolf"
                            THEN "werewolf" ELSE "good"
                  name == s.players[target].character_name
              IN  Log([s EXCEPT !.seer_checks =
                          Append(@, [target |-> name, result |-> result,
                                     night |-> s.round_count])],
                      [phase |-> "seer_check", round |-> s.round_count,
                       target |-> name, result |-> result]) :
              target \in ChooseSeerTarget(other_players, s)}

\* _should_witch_save: every branch compares random.random() to a threshold,
\* so both answers are possible in every branch
ShouldWitchSave(killed_player, s) == BOOLEAN

ChoosePoisonTargetAny(s) ==
    LET alive_players == get_alive_players(s)
        werewolves == WerewolvesOf(s, alive_players)
    IN  Choice(werewolves) \cup Choice(alive_players) \cup {0}

\* _choose_poison_target: the seats it may return, 0 when it returns None
ChoosePoisonTarget(s) ==
    LET alive_players == get_alive_players(s)
        werewolves == WerewolvesOf(s, alive_players)
        witch == get_players_by_role(s, "witch")[1]
        possible_targets ==
            SelectSeq(alive_players,
                   LAMBDA i : i /= witch
                      /\ s.players[i].character_name /= s.killed_tonight)
    IN  Choice(werewolves) \cup Choice(possible_targets) \cup {0}

WitchSaveBad(s, killed_player) ==
    Log([s EXCEPT !.saved_tonight = killed_player],
        [phase |-> "witch_save", round |-> s.round_count,
         target |-> killed_player])

WitchSave(s, killed_player) ==
    Log([s EXCEPT !.saved_tonight = killed_player, !.antidote = FALSE],
        [phase |-> "witch_save", round |-> s.round_count,
         target |-> killed_player])

WitchPoison(s, target) ==
    Log([s EXCEPT !.poisoned_tonight = s.players[target].character_name,
                  !.poison = FALSE],
        [phase |-> "witch_poison", round |-> s.round_count,
         target |-> s.players[target].character_name])

Witches(s) == get_players_by_role(s, "witch")

ProcessWitchActionPoisonsAfterSave(s) ==
    LET witches == Witches(s)
        killed_player == s.killed_tonight
        has_antidote == s.antidote
        has_poison == s.poison
        after_save ==
            IF killed_player /= None /\ has_antidote
            THEN {IF save THEN WitchSave(s, killed_player) ELSE s :
                  save \in ShouldWitchSave(killed_player, s)}
            ELSE {s}
    IN  IF witches = <<>> THEN {s}
        ELSE UNION {IF has_poison
                    THEN {IF poison_target /= 0
                          THEN WitchPoison(s1, poison_target) ELSE s1 :
                          poison_target \in ChoosePoisonTarget(s1)}
                    ELSE {s1} : s1 \in after_save}

ProcessWitchAction(s) ==
    LET witches == Witches(s)
        killed_player == s.killed_tonight
        has_antidote == s.antidote
        has_poison == s.poison
        after_save ==
            IF killed_player /= None /\ has_antidote
            THEN {IF save THEN WitchSave(s, killed_player) ELSE s :
                  save \in ShouldWitchSave(killed_player, s)}
            ELSE {s}
    IN  IF witches = <<>> THEN {s}
        ELSE UNION {IF has_poison /\ s1.saved_tonight /= killed_player
                    THEN {IF poison_target /= 0
                          THEN WitchPoison(s1, poison_target) ELSE s1 :
                          poison_target \in ChoosePoisonTarget(s1)}
                    ELSE {s1} : s1 \in after_save}

ApplyDeathHunterShoots(sd, name) ==
    LET s == sd[1]
        player == PlayerByName(s, name)
        s1 == [SetAlive(s, player, FALSE) EXCEPT
                  !.eliminated_players = Append(@, name)]
        other_alive == SelectSeq(get_alive_players(s1),
                                 LAMBDA i : i /= player)
        shot_target == other_alive[1]
    IN  IF player /= 0 /\ s.players[player].is_alive
        THEN <<IF s.players[player].role = "hunter" /\ s.hunter_can_shoot
                  /\ other_alive /= <<>>
               THEN Log([SetAlive(s1, shot_target, FALSE) EXCEPT
                            !.eliminated_players =
                                Append(@, s.players[shot_target]
                                              .character_name)],
                        [phase |-> "hunter_shoot", round |-> s.round_count,
                         hunter |-> name,
                         target |-> s.players[shot_target].character_name])
               ELSE s1,
               Append(sd[2], name)>>
        ELSE sd

\* one victim of _process_deaths: the scenario and the deaths list after it
ApplyDeath(sd, name) ==
    LET s == sd[1]
        player == PlayerByName(s, name)
    IN  IF player /= 0 /\ s.players[player].is_alive
        THEN <<[SetAlive(s, player, FALSE) EXCEPT
                   !.eliminated_players = Append(@, name)],
               Append(sd[2], name)>>
        ELSE sd

KillLandsBad(killed, saved) == killed /= None

KillLands(killed, saved) == killed /= None /\ killed /= saved

ProcessDeathsLogsPeaceful(s) ==
    LET killed == s.killed_tonight
        saved == s.saved_tonight
        poisoned == s.poisoned_tonight
        sd0 == <<s, <<>>>>
        sd1 == IF KillLands(killed, saved) THEN ApplyDeath(sd0, killed)
               ELSE sd0
        sd2 == IF poisoned /= None THEN ApplyDeath(sd1, poisoned) ELSE sd1
    IN  Log(sd2[1], [phase |-> "night_result",
                     round |-> s.round_count, deaths |-> sd2[2]])

ProcessDeaths(s) ==
    LET killed == s.killed_tonight
        saved == s.saved_tonight
        poisoned == s.poisoned_tonight
        sd0 == <<s, <<>>>>
        sd1 == IF KillLands(killed, saved) THEN ApplyDeath(sd0, killed)
               ELSE sd0
        sd2 == IF poisoned /= None THEN ApplyDeath(sd1, poisoned) ELSE sd1
    IN  IF sd2[2] /= <<>>
        THEN Log(sd2[1], [phase |-> "night_result",
                          round |-> s.round_count, deaths |-> sd2[2]])
        ELSE sd2[1]

ResetNightClearsSheriff(s) ==
    [s EXCEPT !.killed_tonight = None, !.saved_tonight = None,
              !.poisoned_tonight = None, !.sheriff = None]

ResetNight(s) ==
    [s EXCEPT !.killed_tonight = None, !.saved_tonight = None,
              !.poisoned_tonight = None]

ProcessNightActionsAnyPhase(s) ==
    UNION {UNION {{ProcessDeaths(s3) : s3 \in ProcessWitchAction(s2)} :
                  s2 \in ProcessSeerCheck(s1)} :
           s1 \in ProcessWerewolfKill(ResetNight(s))}

ProcessNightActions(s) ==
    IF s.phase /= "night" /\ s.phase /= "first_night" THEN {s}
    ELSE UNION {UNION {{ProcessDeaths(s3) : s3 \in ProcessWitchAction(s2)} :
                       s2 \in ProcessSeerCheck(s1)} :
                s1 \in ProcessWerewolfKill(ResetNight(s))}

(***************************************************************************)
(* handle_sheriff_election / vote_for_sheriff                              *)
(***************************************************************************)
\* random.randint(2, 4)
CandidateCounts == 2..Min(4, MaxCandidates)

HandleSheriffElection(s) ==
    LET alive_players == get_alive_players(s)
    IN  {Log([s EXCEPT !.sheriff_candidates =
                 [k \in 1..Len(candidates) |->
                     s.players[candidates[k]].character_id]],
             [phase |-> "sheriff_election_start", round |-> s.round_count,
              candidates |-> [k \in 1..Len(candidates) |->
                                 s.players[candidates[k]].character_name]]) :
         candidates \in UNION {Sample(alive_players,
                                      Min(n, Len(alive_players))) :
                               n \in CandidateCounts}}

VoteForSheriff(s) ==
    LET candidates == s.sheriff_candidates
        alive_players == get_alive_players(s)
    IN  IF candidates = <<>> THEN {s}
        ELSE {LET sheriff == SelectSeq(alive_players,
                      LAMBDA i : s.players[i].character_id = sheriff_id)
              IN  Log([s EXCEPT !.sheriff = sheriff_id],
                      [phase |-> "sheriff_elected", round |-> s.round_count,
                       sheriff |-> IF sheriff /= <<>>
                                   THEN s.players[sheriff[1]].character_name
                                   ELSE "unknown"]) :
              sheriff_id \in Choice(candidates)}

(***************************************************************************)
(* handle_voting_phase (engine)                                            *)
(***************************************************************************)
EliminatePrepends(s, i) ==
    [SetAlive(s, i, FALSE) EXCEPT
        !.eliminated_players = <<s.players[i].character_name>> \o @]

Eliminate(s, i) ==
    [SetAlive(s, i, FALSE) EXCEPT
        !.eliminated_players = Append(@, s.players[i].character_name)]

HunterShootsNobody(s, eliminated) == {s}

HunterShoots(s, eliminated) ==
    LET other_alive == SelectSeq(get_alive_players(s),
                              LAMBDA i : i /= eliminated)
    IN  IF other_alive = <<>> THEN {s}
        ELSE {Log(Eliminate(s, shot_target),
                  [phase |-> "hunter_shoot", round |-> s.round_count,
                   hunter |-> s.players[eliminated].character_name,
                   target |-> s.players[shot_target].character_name]) :
              shot_target \in Choice(other_alive)}

IdiotRevealsKeepsName(s, eliminated) ==
    Log([SetAlive(s, eliminated, TRUE) EXCEPT !.idiot_revealed = TRUE],
        [phase |-> "idiot_reveal", round |-> s.round_count,
         idiot |-> s.players[eliminated].character_name])

IdiotReveals(s, eliminated) ==
    Log([SetAlive(s, eliminated, TRUE) EXCEPT
            !.eliminated_players =
                Remove(@, s.players[eliminated].character_name),
            !.idiot_revealed = TRUE],
        [phase |-> "idiot_reveal", round |-> s.round_count,
         idiot |-> s.players[eliminated].character_name])

VoteCandidatesBad(s) == SeatSeq

VoteCandidates(s) == get_alive_players(s)

HandleVotingPhase(s) ==
    LET alive_players == VoteCandidates(s)
    IN  IF alive_players = <<>> THEN {s}
        ELSE UNION {
            LET s1 == Eliminate(s, eliminated)
                after ==
                    IF s.players[eliminated].role = "hunter"
                       /\ s.hunter_can_shoot
                    THEN HunterShoots(s1, eliminated)
                    ELSE IF s.players[eliminated].role = "idiot"
                            /\ ~s.idiot_revealed
                    THEN {IdiotReveals(s1, eliminated)}
                    ELSE {s1}
            IN  {Log(s2, [phase |-> "voting_result",
                          round |-> s.round_count,
                          eliminated |->
                              s.players[eliminated].character_name,
                          role |-> s.players[eliminated].role]) :
                 s2 \in after} :
            eliminated \in Choice(alive_players)}

(***************************************************************************)
(* get_next_speaker / process_player_message                               *)
(***************************************************************************)
PyIndexFromStart(xs, i) == IF i < 0 THEN xs[1] ELSE xs[i + 1]

\* xs[i] of a Python list: a negative index counts from the end
PyIndex(xs, i) == IF i < 0 THEN xs[Len(xs) + i + 1] ELSE xs[i + 1]

SpokenWithElectionStart(s, phase) ==
    Cardinality({k \in 1..Len(s.scenario_log) :
                    /\ s.scenario_log[k].phase \in
                          {phase, "sheriff_election_start"}
                    /\ s.scenario_log[k].round = s.round_count})

\* len([log for log in scenario_log
\*      if log.get('phase') == phase and log.get('round') == round_count])
Spoken(s, phase) ==
    Cardinality({k \in 1..Len(s.scenario_log) :
                    /\ s.scenario_log[k].phase = phase
                    /\ s.scenario_log[k].round = s.round_count})

\* next((p for p in alive_players if p.character_id == id), None), 0 for None
AliveById(s, alive_players, id) ==
    LET hits == SelectSeq(alive_players,
                          LAMBDA i : s.players[i].character_id = id)
    IN  IF hits = <<>> THEN 0 ELSE hits[1]

\* the seat get_next_speaker returns, 0 when it returns None
get_next_speaker(s) ==
    LET alive_players == get_alive_players(s)
    IN  IF alive_players = <<>> THEN 0
        ELSE IF s.phase = "sheriff_election" THEN
            LET candidates == s.sheriff_candidates
                spoken_candidates == Spoken(s, "sheriff_election")
            IN  IF spoken_candidates < Len(candidates)
                THEN AliveById(s, alive_players,
                               candidates[spoken_candidates + 1])
                ELSE 0
        ELSE IF s.phase = "day_discussion" THEN
            LET current_round == Spoken(s, "day_discussion")
                sheriff_id == s.sheriff
                sheriff == AliveById(s, alive_players, sheriff_id)
                non_sheriff_players ==
                    SelectSeq(alive_players,
                              LAMBDA i : s.players[i].character_id /= sheriff_id)
                index == current_round - (IF sheriff_id /= None THEN 1 ELSE 0)
            IN  IF current_round >= Len(alive_players) THEN 0
                ELSE IF sheriff_id /= None /\ current_round = 0 /\ sheriff /= 0
                THEN sheriff
                ELSE IF index < Len(non_sheriff_players)
                THEN PyIndex(non_sheriff_players, index)
                ELSE 0
        ELSE 0

\* what chatbot.get_ai_response returns: a reply, or the text it builds
\* from an exception of the service
AIReply == "reply"

AIServiceError == "ai_service_error"

\* an exception that leaves get_ai_response, and the text
\* process_player_message returns for it
Raised == "raised"

ReplyError == "reply_error"

\* how a generation call goes inside the collaborator
ServiceOutcomes == {"ok", "exception"}

get_ai_responseRaises(outcome) ==
    IF outcome = "exception" THEN Raised ELSE AIReply

\* try: ... return enhanced_response
\* except Exception as e: return the service-error text
get_ai_response(outcome) ==
    IF outcome = "exception" THEN AIServiceError ELSE AIReply

\* the scenario after process_player_message: the response is logged, an
\* exception out of get_ai_response skips the entry
ProcessPlayerMessage(s, player, response) ==
    IF response = Raised THEN s
    ELSE Log(s, [phase |-> s.phase, round |-> s.round_count,
                 player |-> s.players[player].character_name,
                 role |-> s.players[player].role,
                 message |-> response])

\* what process_player_message returns
ProcessPlayerMessageReturns(response) ==
    IF response = Raised THEN ReplyError ELSE response

(***************************************************************************)
(* The engine as a state machine: one action per public method.  The       *)
(* driver calls advance_phase, check_game_end and process_night_actions at *)
(* any time and handle_voting_phase any number of times in the voting      *)
(* phase; in the sheriff_election phase it holds one election and one      *)
(* vote for the sheriff (test_werewolf_game.py, lines 79-108).             *)
(***************************************************************************)
\* the ledger entries written by the resolvers, not by speakers
EngineLog(s) ==
    SelectSeq(s.scenario_log, LAMBDA e : "message" \notin DOMAIN e)

LogRoom(s) == Len(EngineLog(s)) <= MaxLog

Called(op, sid, result) == [op |-> op, sid |-> sid, result |-> result]

Init ==
    /\ \E k \in 1..NumDeals :
          multi_scenarios =
              [sid \in Sessions |-> CreateWerewolfScenario(Shuffle(k))]
    /\ last = Called("create_werewolf_scenario", "s1", TRUE)

AdvancePhase(sid) ==
    LET s == multi_scenarios[sid]
    IN  /\ ~(s.phase = "voting" /\ s.round_count >= MaxRound)
        /\ multi_scenarios' =
              [multi_scenarios EXCEPT ![sid] = AdvanceWerewolfPhase(s)]
        /\ last' = Called("advance_phase", sid, AdvanceReturns(s))

CheckGameEndCall(sid) ==
    LET s == multi_scenarios[sid]
    IN  /\ multi_scenarios' = [multi_scenarios EXCEPT ![sid] = CheckGameEnd(s)]
        /\ last' = Called("check_game_end", sid, CheckGameEndResult(s))

NightCall(sid) ==
    LET s == multi_scenarios[sid]
    IN  /\ \E s2 \in ProcessNightActions(s) :
              /\ LogRoom(s2)
              /\ multi_scenarios' = [multi_scenarios EXCEPT ![sid] = s2]
        /\ last' = Called("process_night_actions", sid, None)

SheriffElectionCall(sid) ==
    LET s == multi_scenarios[sid]
    IN  /\ s.phase = "sheriff_election"
        /\ s.sheriff_candidates = <<>>
        /\ \E s2 \in HandleSheriffElection(s) :
              /\ LogRoom(s2)
              /\ multi_scenarios' = [multi_scenarios EXCEPT ![sid] = s2]
        /\ last' = Called("handle_sheriff_election", sid, None)

SheriffVoteCall(sid) ==
    LET s == multi_scenarios[sid]
    IN  /\ s.phase = "sheriff_election"
        /\ s.sheriff = None
        /\ \E s2 \in VoteForSheriff(s) :
              /\ LogRoom(s2)
              /\ multi_scenarios' = [multi_scenarios EXCEPT ![sid] = s2]
        /\ last' = Called("vote_for_sheriff", sid, None)

VotingCall(sid) ==
    LET s == multi_scenarios[sid]
    IN  /\ s.phase = "voting"
        /\ \E s2 \in HandleVotingPhase(s) :
              /\ LogRoom(s2)
              /\ multi_scenarios' = [multi_scenarios EXCEPT ![sid] = s2]
        /\ last' = Called("handle_voting_phase", sid, None)

Next ==
    \E sid \in DOMAIN multi_scenarios :
        \/ AdvancePhase(sid)
        \/ CheckGameEndCall(sid)
        \/ NightCall(sid)
        \/ SheriffElectionCall(sid)
        \/ SheriffVoteCall(sid)
        \/ VotingCall(sid)

Spec == Init /\ [][Next]_vars

(***************************************************************************)
(* Nights and day votes only: the calls that change who is alive and what  *)
(* the night state holds, in any order, without election and without       *)
(* check_game_end.                                                         *)
(***************************************************************************)
NextNight ==
    \E sid \in DOMAIN multi_scenarios :
        \/ AdvancePhase(sid)
        \/ NightCall(sid)
        \/ VotingCall(sid)

SpecNight == Init /\ [][NextNight]_vars

(***************************************************************************)
(* The turn-taking driver (handle_next_turn, src/app.py:1603-1647): it     *)
(* asks get_next_speaker for a seat, has process_player_message log that   *)
(* seat's turn, and advances the phase when no seat is left to speak.      *)
(* Seats die between discussions by the day vote; the sheriff comes from   *)
(* the election.                                                           *)
(***************************************************************************)
SpeakerName(s) ==
    IF get_next_speaker(s) = 0 THEN None
    ELSE s.players[get_next_speaker(s)].character_name

NextSpeakerCallLogs(sid) ==
    LET s == multi_scenarios[sid]
        next_player == get_next_speaker(s)
    IN  /\ multi_scenarios' =
              [multi_scenarios EXCEPT ![sid] =
                  IF next_player = 0 THEN s
                  ELSE ProcessPlayerMessage(s, next_player, AIReply)]
        /\ last' = Called("get_next_speaker", sid, SpeakerName(s))

NextSpeakerCall(sid) ==
    LET s == multi_scenarios[sid]
    IN  /\ UNCHANGED multi_scenarios
        /\ last' = Called("get_next_speaker", sid, SpeakerName(s))

PlayerMessageCall(sid, outcomes) ==
    LET s == multi_scenarios[sid]
        next_player == get_next_speaker(s)
    IN  /\ next_player /= 0
        /\ \E outcome \in outcomes :
              LET response == get_ai_response(outcome)
              IN  /\ multi_scenarios' =
                        [multi_scenarios EXCEPT ![sid] =
                            ProcessPlayerMessage(s, next_player, response)]
                  /\ last' = [op |-> "process_player_message", sid |-> sid,
                              result |-> ProcessPlayerMessageReturns(response),
                              outcome |-> outcome]

AdvanceAfterTalk(sid) ==
    /\ get_next_speaker(multi_scenarios[sid]) = 0
    /\ AdvancePhase(sid)

NextTalk ==
    \E sid \in DOMAIN multi_scenarios :
        \/ NextSpeakerCall(sid)
        \/ PlayerMessageCall(sid, {"ok"})
        \/ AdvanceAfterTalk(sid)
        \/ SheriffElectionCall(sid)
        \/ SheriffVoteCall(sid)
        \/ VotingCall(sid)

SpecTalk == Init /\ [][NextTalk]_vars

(***************************************************************************)
(* Turn-taking while the AI service fails: every generation call either    *)
(* returns a reply or ends in an exception inside get_ai_response.  The    *)
(* service comes back after a failure at most MaxRecoveries times.  The    *)
(* game is followed from the first deal through the election to the end    *)
(* of its first discussion.                                                *)
(***************************************************************************)
Messages(s) == SelectSeq(s.scenario_log, LAMBDA e : "message" \in DOMAIN e)

Recoveries(s) ==
    Cardinality({k \in 1..Len(Messages(s)) - 1 :
                    /\ Messages(s)[k].message /= AIReply
                    /\ Messages(s)[k + 1].message = AIReply})

InitOutage ==
    /\ multi_scenarios =
          [sid \in Sessions |-> CreateWerewolfScenario(Shuffle(1))]
    /\ last = Called("create_werewolf_scenario", "s1", TRUE)

NextOutage ==
    \E sid \in DOMAIN multi_scenarios :
        \/ NextSpeakerCall(sid)
        \/ /\ PlayerMessageCall(sid, ServiceOutcomes)
           /\ Recoveries(multi_scenarios'[sid]) <= MaxRecoveries
        \/ /\ multi_scenarios[sid].phase /= "day_discussion"
           /\ AdvanceAfterTalk(sid)
        \/ SheriffElectionCall(sid)
        \/ SheriffVoteCall(sid)

SpecOutage == InitOutage /\ [][NextOutage]_vars

(***************************************************************************)
(* Several sessions on one engine: the registry starts empty, scenarios    *)
(* are created (and created again) per session, and every method is        *)
(* called for any registered session in any order.                         *)
(***************************************************************************)
SessionPool == {"s1", "s2"}

\* the persona lists handed to create_werewolf_scenario: the twelve
\* personas, eleven of them, and twelve with one unknown
CreateInputs ==
    {CharacterIds,
     SubSeq(CharacterIds, 1, NumPlayers - 1),
     [CharacterIds EXCEPT ![7] = "c0"]}

InitSessions ==
    /\ multi_scenarios = [sid \in {} |-> CreateWerewolfScenario(Shuffle(1))]
    /\ last = Called("__init__", None, None)

CreateCall(sid, character_ids) ==
    IF CreateReturns(character_ids)
    THEN /\ \E k \in 1..NumDeals :
               multi_scenarios' =
                   Register(multi_scenarios, sid,
                            CreateScenarioFrom(character_ids, Shuffle(k)))
         /\ last' = [op |-> "create_werewolf_scenario", sid |-> sid,
                     result |-> TRUE, character_ids |-> character_ids]
    ELSE /\ UNCHANGED multi_scenarios
         /\ last' = [op |-> "create_werewolf_scenario", sid |-> sid,
                     result |-> FALSE, character_ids |-> character_ids]

\* the phase advances a scenario has behind it
PhaseIndex(s) ==
    CASE s.phase = "first_night" -> 0
      [] s.phase = "first_day" -> 1
      [] s.phase = "sheriff_election" -> 2
      [] s.phase = "day_discussion" -> 3 * s.round_count
      [] s.phase = "voting" -> 3 * s.round_count + 1
      [] s.phase = "night" -> 3 * s.round_count - 1
      [] OTHER -> 0

RECURSIVE SessionWork(_)
SessionWork(sids) ==
    IF sids = {} THEN 0
    ELSE LET sid == CHOOSE x \in sids : TRUE
             s == multi_scenarios[sid]
         IN  PhaseIndex(s) + 2 * Len(s.scenario_log)
                 + SessionWork(sids \ {sid})

SessionsRoom == SessionWork(DOMAIN multi_scenarios) <= MaxSessionWork

NextSessions ==
    /\ \/ \E sid \in SessionPool, character_ids \in CreateInputs :
             CreateCall(sid, character_ids)
       \/ /\ SessionWork(DOMAIN multi_scenarios) < MaxSessionWork
          /\ \/ Next
             \/ \E sid \in DOMAIN multi_scenarios :
                   \/ NextSpeakerCall(sid)
                   \/ PlayerMessageCall(sid, {"ok"})
    /\ SessionsRoom'

SpecSessions == InitSessions /\ [][NextSessions]_vars

\* the outcomes of random.shuffle that seat the idiot second, behind the
\* hunter or behind a villager: with them a day vote reaches both skills
\* within the bounds
SkillDeals == {k \in 1..2 * NumPlayers : Shuffle(k)[2] = "idiot"}

InitSkill ==
    /\ \E k \in SkillDeals :
          multi_scenarios =
              [sid \in Sessions |-> CreateWerewolfScenario(Shuffle(k))]
    /\ last = Called("create_werewolf_scenario", "s1", TRUE)

SpecSkill == InitSkill /\ [][Next]_vars

(***************************************************************************)
(* The loop of test_werewolf_game (lines 75-108) without its iteration     *)
(* cap.  One pass resolves the phase (night resolution in a night phase,   *)
(* election and sheriff vote in sheriff_election, day vote in voting),     *)
(* advances the phase and calls check_game_end; the loop runs while        *)
(* is_active holds and check_game_end returned None.  last tells where in  *)
(* the pass the loop stands; the values returned are kept as text.         *)
(***************************************************************************)
InitDriver ==
    /\ \E k \in 1..NumDeals :
          multi_scenarios =
              [sid \in Sessions |-> CreateWerewolfScenario(Shuffle(k))]
    /\ last = Called("create_werewolf_scenario", "s1", "True")

AtLoopHead(l) ==
    \/ l.op = "create_werewolf_scenario"
    \/ l.op = "check_game_end" /\ l.result = None

\* the call made for scenario s by a pass that stands behind call l, as
\* <<name, outcomes, result>>; <<>> when the loop has ended
DriverCall(s, l) ==
    LET night == <<"process_night_actions", ProcessNightActions(s), None>>
        advance == <<"advance_phase", {AdvanceWerewolfPhase(s)},
                     IF AdvanceReturns(s) THEN "True" ELSE "False">>
    IN  IF l.op = "advance_phase"
        THEN <<"check_game_end", {CheckGameEnd(s)}, CheckGameEndResult(s)>>
        ELSE IF l.op = "handle_sheriff_election"
        THEN <<"vote_for_sheriff", VoteForSheriff(s), None>>
        ELSE IF l.op \in {"process_night_actions", "vote_for_sheriff",
                          "handle_voting_phase"}
        THEN advance
        ELSE IF ~(AtLoopHead(l) /\ s.is_active) THEN <<>>
        ELSE IF s.phase \in {"first_night", "night"} THEN night
        ELSE IF s.phase = "sheriff_election"
        THEN <<"handle_sheriff_election", HandleSheriffElection(s), None>>
        ELSE IF s.phase = "voting"
        THEN <<"handle_voting_phase", HandleVotingPhase(s), None>>
        ELSE advance

DriverStep(sid) ==
    LET call == DriverCall(multi_scenarios[sid], last)
    IN  /\ call /= <<>>
        /\ \E s2 \in call[2] :
              multi_scenarios' = [multi_scenarios EXCEPT ![sid] = s2]
        /\ last' = Called(call[1], sid, call[3])

NextDriver == \E sid \in DOMAIN multi_scenarios : DriverStep(sid)

\* the loop has a call left to make: the condition under which a step of
\* NextDriver exists, every resolver returning at least one outcome
DriverRuns ==
    \E sid \in DOMAIN multi_scenarios :
        \/ last.op \in {"advance_phase", "handle_sheriff_election",
                        "process_night_actions", "vote_for_sheriff",
                        "handle_voting_phase"}
        \/ AtLoopHead(last) /\ multi_scenarios[sid].is_active

\* weak fairness of the loop, WF_vars(NextDriver), written out with
\* DriverRuns for ENABLED <<NextDriver>>_vars: the interpreter runs the
\* loop's next statement, it never stops between two calls
DriverFairness == []<>(~DriverRuns) \/ []<><<NextDriver>>_vars

SpecDriver == InitDriver /\ [][NextDriver]_vars /\ DriverFairness

(***************************************************************************)
(* The real-time driver: the socket handlers create_scenario and next_turn *)
(* (src/app.py:1555-1664) and the tally vote they trigger, the             *)
(* module-level handle_voting_phase (1666-1747).  A run of a handler is a  *)
(* record of the scenario, the engine calls made so far (each with the     *)
(* phase it was made in) and the tally vote held, if any.  last keeps the  *)
(* calls and the vote of the handler that ran last.                        *)
(***************************************************************************)
EngineCall(r, op) ==
    [r EXCEPT !.calls = Append(@, [op |-> op, phase |-> r.s.phase])]

\* for player in alive_players: process_player_message(session_id, player)
RECURSIVE CollectVotes(_, _)
CollectVotes(r, voters) ==
    IF voters = <<>> THEN r
    ELSE CollectVotes(
             [EngineCall(r, "process_player_message") EXCEPT
                 !.s = ProcessPlayerMessage(r.s, Head(voters), AIReply)],
             Tail(voters))

\* the seat the replies of a vote name
NamedSeats(alive_players) ==
    {alive_players[i] : i \in 1..Min(Len(alive_players), MaxNamed)}

\* the vote of player: the first other living seat named in the reply,
\* else random.choice(other_players) when another seat is alive, 0 for None
VoteTargets(alive_players, player, named) ==
    LET other_players == SelectSeq(alive_players, LAMBDA i : i /= player)
    IN  IF named /= player THEN {named}
        ELSE IF Len(alive_players) > 1 THEN Choice(other_players)
        ELSE {0}

\* the keys of vote_results in insertion order
RECURSIVE VoteKeys(_)
VoteKeys(votes) ==
    IF votes = <<>> THEN <<>>
    ELSE LET rest == VoteKeys(SubSeq(votes, 1, Len(votes) - 1))
             v == votes[Len(votes)]
         IN  IF v = 0 \/ v \in Range(rest) THEN rest ELSE Append(rest, v)

VoteCount(votes, seat) ==
    Cardinality({k \in 1..Len(votes) : votes[k] = seat})

\* candidates = [name for name, votes in vote_results.items()
\*               if votes == max_votes]
TopVoted(votes) ==
    SelectSeq(VoteKeys(votes),
              LAMBDA a : \A b \in Range(VoteKeys(votes)) :
                            VoteCount(votes, b) <= VoteCount(votes, a))

NoVote == [alive |-> <<>>, votes |-> <<>>, eliminated |-> 0]

\* the module-level handle_voting_phase: the runs it can end in
handle_voting_phase(r) ==
    LET alive_players == get_alive_players(r.s)
        r1 == CollectVotes(r, alive_players)
        ballots ==
            UNION {{[k \in 1..Len(alive_players) |->
                        IF alive_players[k] = named THEN own
                        ELSE CHOOSE v \in VoteTargets(alive_players,
                                                      alive_players[k],
                                                      named) : TRUE] :
                    own \in VoteTargets(alive_players, named, named)} :
                   named \in NamedSeats(alive_players)}
        Finish(r2) ==
            LET r3 == [EngineCall(r2, "check_game_end") EXCEPT
                          !.s = CheckGameEnd(r2.s)]
                r4 == [EngineCall(r3, "advance_phase") EXCEPT
                          !.s = AdvanceWerewolfPhase(r3.s)]
                r5 == [EngineCall(r4, "advance_phase") EXCEPT
                          !.s = AdvanceWerewolfPhase(r4.s)]
            IN  IF CheckGameEndResult(r2.s) /= None THEN r3 ELSE r5
    IN  IF alive_players = <<>> THEN {Finish(r1)}
        ELSE UNION {
            IF VoteKeys(votes) = <<>>
            THEN {Finish([r1 EXCEPT !.vote = [alive |-> alive_players,
                                              votes |-> votes,
                                              eliminated |-> 0]])}
            ELSE {Finish([r1 EXCEPT
                             !.s = Eliminate(r1.s, eliminated),
                             !.vote = [alive |-> alive_players,
                                       votes |-> votes,
                                       eliminated |-> eliminated]]) :
                  eliminated \in Choice(TopVoted(votes))} :
            votes \in ballots}

\* discussion_count >= len(alive_players) after a speech in day_discussion
DiscussionOver(s) ==
    /\ s.phase = "day_discussion"
    /\ Spoken(s, "day_discussion") >= Len(get_alive_players(s))

\* handle_next_turn: the runs it can end in.  It calls itself after an
\* advance that did not end the game.
RECURSIVE handle_next_turn(_)
handle_next_turn(r) ==
    LET next_player == get_next_speaker(r.s)
        r1 == EngineCall(r, "get_next_speaker")
        spoken == [EngineCall(r1, "process_player_message") EXCEPT
                      !.s = ProcessPlayerMessage(r.s, next_player, AIReply)]
        to_voting == [EngineCall(spoken, "advance_phase") EXCEPT
                         !.s = AdvanceWerewolfPhase(spoken.s)]
        advanced == [EngineCall(r1, "advance_phase") EXCEPT
                        !.s = AdvanceWerewolfPhase(r.s)]
        checked == [EngineCall(advanced, "check_game_end") EXCEPT
                       !.s = CheckGameEnd(advanced.s)]
    IN  IF ~r.s.is_active THEN {r}
        ELSE IF next_player /= 0
        THEN IF DiscussionOver(spoken.s) THEN handle_voting_phase(to_voting)
             ELSE {spoken}
        ELSE IF ~AdvanceReturns(r.s) THEN {advanced}
        ELSE IF CheckGameEndResult(advanced.s) /= None THEN {checked}
        ELSE handle_next_turn(checked)

\* the outcomes of random.shuffle the real-time games are followed from
RealtimeDeals == SkillDeals \cup (1..NumDeals)

\* create_scenario: create_werewolf_scenario, then handle_next_turn
InitRealtime ==
    \E k \in RealtimeDeals :
        \E r \in handle_next_turn(
                     [s |-> CreateWerewolfScenario(Shuffle(k)),
                      calls |-> <<[op |-> "create_werewolf_scenario",
                                   phase |-> None]>>,
                      vote |-> NoVote]) :
            /\ multi_scenarios = [sid \in Sessions |-> r.s]
            /\ last = [op |-> "create_scenario", sid |-> "s1",
                       result |-> None, calls |-> r.calls, vote |-> r.vote]

NextTurnEvent(sid) ==
    \E r \in handle_next_turn([s |-> multi_scenarios[sid], calls |-> <<>>,
                               vote |-> NoVote]) :
        /\ multi_scenarios' = [multi_scenarios EXCEPT ![sid] = r.s]
        /\ last' = [op |-> "next_turn", sid |-> sid, result |-> None,
                    calls |-> r.calls, vote |-> r.vote]

NextRealtime == \E sid \in DOMAIN multi_scenarios : NextTurnEvent(sid)

SpecRealtime == InitRealtime /\ [][NextRealtime]_vars

(***************************************************************************)
(* The engine under a seeded generator.  Every random decision of the      *)
(* engine is a call of the module-level functions of random (random.       *)
(* shuffle, random.choice, random.random, ...), which share one generator  *)
(* for the whole process.  The generator is a position in the stream its   *)
(* seed fixes: a call that draws takes the outcome the position selects    *)
(* and moves the position on.  last carries the seed and the position      *)
(* after the call.  Two sessions are created once each and resolve their   *)
(* first night, in any interleaving.                                       *)
(***************************************************************************)
Seeds == 0..MaxSeed

\* the n-th element of the set S in a fixed enumeration of S
RECURSIVE Nth(_, _)
Nth(S, n) ==
    LET x == CHOOSE y \in S : TRUE
    IN  IF n = 0 \/ S = {x} THEN x ELSE Nth(S \ {x}, n - 1)

\* the outcome a drawing call takes among its possible outcomes S when the
\* generator stands at position g
DrawFrom(S, g) == Nth(S, g % Cardinality(S))

\* random.shuffle(standard_roles) at position g
SeededShuffle(g) == Shuffle((g % NumDeals) + 1)

InitSeed ==
    /\ multi_scenarios = [sid \in {} |-> CreateWerewolfScenario(Shuffle(1))]
    /\ \E seed \in Seeds :
          last = [op |-> "seed", sid |-> None, result |-> None,
                  seed |-> seed, random |-> seed]

SeededCreate(sid) ==
    /\ sid \notin DOMAIN multi_scenarios
    /\ multi_scenarios' =
          Register(multi_scenarios, sid,
                   CreateWerewolfScenario(SeededShuffle(last.random)))
    /\ last' = [op |-> "create_werewolf_scenario", sid |-> sid,
                result |-> TRUE, seed |-> last.seed,
                random |-> last.random + 1]

SeededNight(sid) ==
    LET s == multi_scenarios[sid]
        s2 == DrawFrom(ProcessNightActions(s), last.random)
    IN  /\ s.phase \in {"night", "first_night"}
        /\ LogRoom(s2)
        /\ multi_scenarios' = [multi_scenarios EXCEPT ![sid] = s2]
        /\ last' = [op |-> "process_night_actions", sid |-> sid,
                    result |-> None, seed |-> last.seed,
                    random |-> last.random + 1]

NextSeed ==
    \/ \E sid \in SessionPool : SeededCreate(sid)
    \/ \E sid \in DOMAIN multi_scenarios : SeededNight(sid)

SpecSeed == InitSeed /\ [][NextSeed]_vars

(***************************************************************************)
(* Properties                                                              *)
(***************************************************************************)
SessionIds == DOMAIN multi_scenarios

AliveSeats(s) == {i \in 1..Len(s.players) : s.players[i].is_alive}

SeatsWithRole(s, roles) == {i \in 1..Len(s.players) : s.players[i].role \in roles}

NameOf(s, i) == s.players[i].character_name

Names(s, seats) == {NameOf(s, i) : i \in seats}

CountLog(s, phase) ==
    Cardinality({k \in 1..Len(s.scenario_log) : s.scenario_log[k].phase = phase})

\* the entries a step appended to scenario_log
NewLog(s, t) ==
    SubSeq(t.scenario_log, Len(s.scenario_log) + 1, Len(t.scenario_log))

IsNightPhase(s) == s.phase \in {"night", "first_night"}

\* the step is a call of op for session sid
Step(op, sid) == last'.op = op /\ last'.sid = sid

\* C1: the twelve seats hold 4 werewolves, one seer, witch, hunter and idiot
\* and 4 villagers, and no operation changes the role of a seat.
DeckDealt(s) ==
    /\ Len(s.players) = 12
    /\ Cardinality(SeatsWithRole(s, {"werewolf"})) = 4
    /\ Cardinality(SeatsWithRole(s, {"villager"})) = 4
    /\ \A r \in GodRoles : Cardinality(SeatsWithRole(s, {r})) = 1

C1_RolesDealtAndKept ==
    [][\A sid \in SessionIds :
          /\ DeckDealt(multi_scenarios[sid])
          /\ DeckDealt(multi_scenarios'[sid])
          /\ \A i \in 1..12 :
                multi_scenarios'[sid].players[i].role =
                    multi_scenarios[sid].players[i].role]_vars

C1_Witness ==
    \E sid \in SessionIds :
        LET s == multi_scenarios[sid]
        IN  /\ last.op = "handle_voting_phase"
            /\ s.round_count = 2
            /\ Len(s.eliminated_players) >= 2
            /\ DeckDealt(s)

\* C2: a night resolution kills exactly the living seat named by
\* killed_tonight when it differs from saved_tonight and the living seat
\* named by poisoned_tonight, appends them to eliminated_players and changes
\* no other seat; a saved victim stays alive, is not appended and is not
\* named in a night_result entry.
NightVictims(s, t) ==
    (IF t.killed_tonight /= None /\ t.killed_tonight /= t.saved_tonight
     THEN <<t.killed_tonight>> ELSE <<>>)
    \o (IF t.poisoned_tonight /= None THEN <<t.poisoned_tonight>> ELSE <<>>)

C2_DeathApplication ==
    [][\A sid \in SessionIds :
          LET s == multi_scenarios[sid]
              t == multi_scenarios'[sid]
              victims == NightVictims(s, t)
              saved == t.saved_tonight
          IN  Step("process_night_actions", sid) /\ IsNightPhase(s) =>
                /\ Range(victims) \subseteq Names(s, AliveSeats(s))
                /\ AliveSeats(t) =
                      {i \in AliveSeats(s) : NameOf(s, i) \notin Range(victims)}
                /\ t.eliminated_players = s.eliminated_players \o victims
                /\ t.killed_tonight /= None /\ t.killed_tonight = saved =>
                      /\ PlayerByName(t, saved) \in AliveSeats(t)
                      /\ saved \notin Range(t.eliminated_players)
                      /\ \A k \in 1..Len(t.scenario_log) :
                            t.scenario_log[k].phase = "night_result" =>
                                saved \notin Range(t.scenario_log[k].deaths)]_vars

C2_Witness ==
    \E sid \in SessionIds :
        LET s == multi_scenarios[sid]
        IN  /\ last.op = "process_night_actions"
            /\ IsNightPhase(s)
            /\ s.killed_tonight /= None
            /\ s.saved_tonight = s.killed_tonight
            /\ PlayerByName(s, s.killed_tonight) \in AliveSeats(s)
            /\ s.eliminated_players /= <<>>

WinCondition(s) ==
    LET alive == AliveSeats(s)
        wolves == alive \cap SeatsWithRole(s, {"werewolf"})
        gods == alive \cap SeatsWithRole(s, GodRoles)
        villagers == alive \cap SeatsWithRole(s, {"villager"})
    IN  \/ wolves = {}
        \/ Cardinality(wolves) >= Cardinality(alive \ wolves)
        \/ gods = {} /\ alive /= {}
        \/ villagers = {} /\ wolves /= {}

PhaseTable ==
    {<<"first_night", "first_day">>, <<"first_day", "sheriff_election">>,
     <<"sheriff_election", "day_discussion">>, <<"day_discussion", "voting">>,
     <<"voting", "night">>, <<"night", "day_discussion">>}

OpeningPhases == <<"first_night", "first_day", "sheriff_election">>

C6_PhaseSequence ==
    /\ \A sid \in SessionIds : multi_scenarios[sid].phase = "first_night"
    /\ [][\A sid \in SessionIds :
             LET s == multi_scenarios[sid]
                 t == multi_scenarios'[sid]
             IN  /\ Step("advance_phase", sid) =>
                        <<s.phase, t.phase>> \in PhaseTable
                 /\ ~Step("advance_phase", sid) => t.phase = s.phase
                 /\ \A k \in 1..3 :
                       t.phase = OpeningPhases[k] /\ s.phase /= t.phase =>
                           k > 1 /\ s.phase = OpeningPhases[k - 1]]_vars

C6_Witness ==
    \E sid \in SessionIds :
        LET s == multi_scenarios[sid]
        IN  /\ last.op = "advance_phase"
            /\ s.phase = "day_discussion"
            /\ s.round_count = 2

\* C7: round_count is 1 at creation, grows by exactly 1 on each advance
\* from voting to night and is changed by nothing else.
C7_RoundCount ==
    /\ \A sid \in SessionIds : multi_scenarios[sid].round_count = 1
    /\ [][\A sid \in SessionIds :
             LET s == multi_scenarios[sid]
                 t == multi_scenarios'[sid]
             IN  IF Step("advance_phase", sid) /\ s.phase = "voting"
                 THEN t.round_count = s.round_count + 1 /\ t.phase = "night"
                 ELSE t.round_count = s.round_count]_vars

C7_Witness ==
    \E sid \in SessionIds :
        LET s == multi_scenarios[sid]
        IN  /\ last.op = "advance_phase"
            /\ s.phase = "night"
            /\ s.round_count = 2
            /\ s.scenario_log /= <<>>

\* C8: on a scenario whose is_active is false advance_phase returns false
\* and leaves phase and round_count unchanged.
C8_InactiveAdvanceIsNoOp ==
    [][\A sid \in SessionIds :
          LET s == multi_scenarios[sid]
              t == multi_scenarios'[sid]
          IN  Step("advance_phase", sid) /\ ~s.is_active =>
                /\ last'.result = FALSE
                /\ t.phase = s.phase
                /\ t.round_count = s.round_count]_vars

\* C9: the werewolf kill target, the seer check target, the poison target,
\* the seat voted out and the hunter's shot target are all alive when they
\* are chosen.
C9_TargetsAlive ==
    [][\A sid \in SessionIds :
          LET s == multi_scenarios[sid]
              t == multi_scenarios'[sid]
              new == NewLog(s, t)
              alive == Names(s, AliveSeats(s))
          IN  /\ Step("process_night_actions", sid) /\ IsNightPhase(s) =>
                    /\ t.killed_tonight /= None => t.killed_tonight \in alive
                    /\ t.poisoned_tonight /= None =>
                          t.poisoned_tonight \in alive
                    /\ \A k \in Len(s.seer_checks) + 1..Len(t.seer_checks) :
                          t.seer_checks[k].target \in alive
              /\ Step("handle_voting_phase", sid) =>
                    \A k \in 1..Len(new) :
                       /\ new[k].phase = "voting_result" =>
                             new[k].eliminated \in alive
                       /\ new[k].phase = "hunter_shoot" =>
                             /\ new[k].target \in alive
                             /\ new[k].target /= new[k].hunter]_vars

\* a day vote and a night resolution that both chose among survivors
C9_Witness ==
    \E sid \in SessionIds :
        LET s == multi_scenarios[sid]
        IN  /\ last.op = "process_night_actions"
            /\ s.phase = "night"
            /\ s.killed_tonight /= None
            /\ CountLog(s, "voting_result") >= 2
            /\ Len(s.eliminated_players) >= 3

VotedSeat(s, t) ==
    LET new == NewLog(s, t)
    IN  IF new = <<>> THEN 0
        ELSE IF new[Len(new)].phase /= "voting_result" THEN 0
        ELSE PlayerByName(s, new[Len(new)].eliminated)

\* C11: a day vote that eliminates the hunter while hunter_can_shoot is true
\* and another seat is alive leaves exactly two seats newly dead, the hunter
\* and one other seat that was alive before, and appends both names, the
\* hunter's first, to eliminated_players.
C11_HunterTakesOne ==
    [][\A sid \in SessionIds :
          LET s == multi_scenarios[sid]
              t == multi_scenarios'[sid]
              hunter == VotedSeat(s, t)
              gone == AliveSeats(s) \ AliveSeats(t)
          IN  /\ Step("handle_voting_phase", sid)
              /\ hunter /= 0
              /\ s.players[IF hunter = 0 THEN 1 ELSE hunter].role = "hunter"
              /\ s.hunter_can_shoot
              /\ Cardinality(AliveSeats(s)) >= 2
              => /\ AliveSeats(t) \subseteq AliveSeats(s)
                 /\ Cardinality(gone) = 2
                 /\ hunter \in gone
                 /\ \E other \in gone \ {hunter} :
                       /\ other \in AliveSeats(s)
                       /\ t.eliminated_players =
                             s.eliminated_players
                                 \o <<NameOf(s, hunter), NameOf(s, other)>>]_vars

\* the hunter was voted out and shot a living seat
C11_Witness ==
    \E sid \in SessionIds :
        LET s == multi_scenarios[sid]
            n == Len(s.scenario_log)
        IN  /\ last.op = "handle_voting_phase"
            /\ n >= 2
            /\ s.scenario_log[n].phase = "voting_result"
            /\ s.scenario_log[n].role = "hunter"
            /\ s.scenario_log[n - 1].phase = "hunter_shoot"
            /\ s.scenario_log[n - 1].hunter = s.scenario_log[n].eliminated
            /\ PlayerByName(s, s.scenario_log[n - 1].target)
                  \notin AliveSeats(s)

\* C12: a day vote that picks the idiot while idiot_revealed is false leaves
\* the idiot alive and out of eliminated_players, sets idiot_revealed and
\* changes no other seat's is_alive; a day vote that picks the idiot while
\* idiot_revealed is true leaves the idiot dead.
C12_IdiotReveal ==
    [][\A sid \in SessionIds :
          LET s == multi_scenarios[sid]
              t == multi_scenarios'[sid]
              idiot == VotedSeat(s, t)
          IN  /\ Step("handle_voting_phase", sid)
              /\ idiot /= 0
              /\ s.players[IF idiot = 0 THEN 1 ELSE idiot].role = "idiot"
              => IF ~s.idiot_revealed
                 THEN /\ idiot \in AliveSeats(t)
                      /\ NameOf(s, idiot) \notin Range(t.eliminated_players)
                      /\ t.idiot_revealed
                      /\ AliveSeats(t) = AliveSeats(s)
                 ELSE /\ idiot \notin AliveSeats(t)
                      /\ t.idiot_revealed]_vars

\* the idiot was voted twice: revealed by the first vote, dead by the second
C12_Witness ==
    \E sid \in SessionIds :
        LET s == multi_scenarios[sid]
            n == Len(s.scenario_log)
        IN  /\ last.op = "handle_voting_phase"
            /\ s.scenario_log[n].phase = "voting_result"
            /\ s.scenario_log[n].role = "idiot"
            /\ CountLog(s, "idiot_reveal") = 1
            /\ s.scenario_log[n - 1].phase /= "idiot_reveal"
            /\ s.idiot_revealed
            /\ PlayerByName(s, s.scenario_log[n].eliminated)
                  \notin AliveSeats(s)

\* the names logged as speakers of phase in the current round, in ledger order
Speakers(s, phase) ==
    LET turns == SelectSeq(s.scenario_log,
                           LAMBDA e : e.phase = phase /\ e.round = s.round_count)
    IN  [k \in 1..Len(turns) |-> turns[k].player]

NoRepeat(xs) == \A i, j \in 1..Len(xs) : xs[i] = xs[j] => i = j

\* C13: in day_discussion, with one ledger entry logged for each seat
\* get_next_speaker returned, the seats that spoke are living seats, none
\* spoke twice, the next seat returned is a living seat that has not spoken,
\* and None is returned exactly when every living seat has spoken.
C13_EverySeatSpeaksOnce ==
    \A sid \in SessionIds :
        LET s == multi_scenarios[sid]
            spoke == Speakers(s, "day_discussion")
            alive == Names(s, AliveSeats(s))
            next == get_next_speaker(s)
        IN  s.phase = "day_discussion" =>
              /\ NoRepeat(spoke)
              /\ Range(spoke) \subseteq alive
              /\ next /= 0 =>
                    /\ next \in AliveSeats(s)
                    /\ NameOf(s, next) \notin Range(spoke)
              /\ next = 0 <=> Range(spoke) = alive

\* a discussion of the second round in which every living seat has spoken,
\* the elected sheriff being dead
C13_Witness ==
    \E sid \in SessionIds :
        LET s == multi_scenarios[sid]
        IN  /\ s.phase = "day_discussion"
            /\ s.round_count = 2
            /\ last.op = "get_next_speaker"
            /\ last.result = None
            /\ s.sheriff /= None
            /\ AliveById(s, get_alive_players(s), s.sheriff) = 0
            /\ Len(Speakers(s, "day_discussion")) = Cardinality(AliveSeats(s))
            /\ Cardinality(AliveSeats(s)) = 11

\* C14: create_werewolf_scenario called with a number of personas other than
\* 12, or with a persona that cannot be resolved, returns False and leaves
\* the registry as it was: no scenario is created and none is changed.
C14_CreateFailure ==
    [][\A sid \in SessionPool :
          Step("create_werewolf_scenario", sid) =>
              LET character_ids == last'.character_ids
              IN  \/ Len(character_ids) /= 12
                  \/ \E k \in 1..Len(character_ids) :
                        character_ids[k] \notin KnownCharacters
                  => /\ last'.result = FALSE
                     /\ multi_scenarios' = multi_scenarios]_vars

\* a create with an unknown persona failed for a session whose scenario is
\* under way
C14_Witness ==
    /\ last.op = "create_werewolf_scenario"
    /\ last.result = FALSE
    /\ Len(last.character_ids) = 12
    /\ last.sid \in SessionIds
    /\ multi_scenarios[last.sid].scenario_log /= <<>>
    /\ multi_scenarios[last.sid].phase /= "first_night"

\* C15: a scenario just created is in phase first_night and round 1, is
\* active, has twelve living seats, an empty eliminated_players and ledger,
\* no sheriff and no candidates, both potions, hunter_can_shoot true,
\* idiot_revealed false and no kill, save or poison of the night.
FreshScenario(s) ==
    /\ s.phase = "first_night"
    /\ s.round_count = 1
    /\ s.is_active
    /\ Len(s.players) = 12
    /\ AliveSeats(s) = 1..12
    /\ s.eliminated_players = <<>>
    /\ s.scenario_log = <<>>
    /\ s.sheriff = None
    /\ s.sheriff_candidates = <<>>
    /\ s.antidote /\ s.poison
    /\ s.hunter_can_shoot
    /\ ~s.idiot_revealed
    /\ s.seer_checks = <<>>
    /\ s.killed_tonight = None
    /\ s.saved_tonight = None
    /\ s.poisoned_tonight = None

C15_FreshState ==
    last.op = "create_werewolf_scenario" /\ last.result = TRUE =>
        /\ last.sid \in SessionIds
        /\ FreshScenario(multi_scenarios[last.sid])

\* a scenario was created while the other session's game was under way
C15_Witness ==
    /\ last.op = "create_werewolf_scenario"
    /\ last.result = TRUE
    /\ FreshScenario(multi_scenarios[last.sid])
    /\ \E other \in SessionIds \ {last.sid} :
          /\ multi_scenarios[other].scenario_log /= <<>>
          /\ multi_scenarios[other].eliminated_players /= <<>>

\* C16: process_night_actions called in a phase other than first_night and
\* night changes nothing of the scenario: no is_alive flag, no potion flag,
\* no killed_tonight, saved_tonight or poisoned_tonight, no seer check and
\* no ledger entry.
C16_NightOutOfPhase ==
    [][\A sid \in SessionIds :
          LET s == multi_scenarios[sid]
              t == multi_scenarios'[sid]
          IN  Step("process_night_actions", sid) /\ ~IsNightPhase(s) =>
                /\ AliveSeats(t) = AliveSeats(s)
                /\ t.antidote = s.antidote /\ t.poison = s.poison
                /\ t.killed_tonight = s.killed_tonight
                /\ t.saved_tonight = s.saved_tonight
                /\ t.poisoned_tonight = s.poisoned_tonight
                /\ t.seer_checks = s.seer_checks
                /\ t.scenario_log = s.scenario_log
                /\ t = s]_vars

\* process_night_actions was called by day, the victim of the night before
\* still named by killed_tonight
C16_Witness ==
    \E sid \in SessionIds :
        LET s == multi_scenarios[sid]
        IN  /\ last.op = "process_night_actions"
            /\ s.phase \in {"first_day", "day_discussion", "voting"}
            /\ s.killed_tonight /= None
            /\ CountLog(s, "werewolf_kill") = 1

IsPrefix(xs, ys) ==
    /\ Len(xs) <= Len(ys)
    /\ \A k \in 1..Len(xs) : ys[k] = xs[k]

\* C17: across every operation the eliminated_players of before is a prefix
\* of the eliminated_players of after; the idiot reveal takes back only the
\* name its own vote appended.
C17_EliminatedOnlyGrows ==
    [][\A sid \in SessionIds :
          IsPrefix(multi_scenarios[sid].eliminated_players,
                   multi_scenarios'[sid].eliminated_players)]_vars

\* the idiot was revealed by a vote taken after other seats had died
C17_Witness ==
    \E sid \in SessionIds :
        LET s == multi_scenarios[sid]
            n == Len(s.scenario_log)
        IN  /\ last.op = "handle_voting_phase"
            /\ n >= 2
            /\ s.scenario_log[n - 1].phase = "idiot_reveal"
            /\ s.eliminated_players /= <<>>
            /\ s.scenario_log[n].eliminated \notin Range(s.eliminated_players)

\* C18: with two sessions registered, an operation called for one session
\* leaves the scenario of the other session as it was.
C18_SessionsIsolated ==
    [][\A sid \in SessionIds :
          sid /= last'.sid =>
              /\ sid \in DOMAIN multi_scenarios'
              /\ multi_scenarios'[sid] = multi_scenarios[sid]]_vars

\* both sessions hold a game under way, one past an election or a vote and
\* the other past its first night
C18_Witness ==
    /\ SessionIds = SessionPool
    /\ \E a, b \in SessionIds :
          /\ a /= b
          /\ last.sid = a
          /\ last.op \in {"handle_voting_phase", "vote_for_sheriff",
                          "handle_sheriff_election", "process_night_actions"}
          /\ multi_scenarios[a].scenario_log /= <<>>
          /\ multi_scenarios[b].phase /= "first_night"

\* C19: the loop of test_werewolf_game, run without its iteration cap,
\* reaches from every fresh scenario and under every random outcome a state
\* in which check_game_end has returned a win message and is_active is false.
GameOver ==
    \A sid \in SessionIds :
        /\ last.op = "check_game_end"
        /\ last.result /= None
        /\ ~multi_scenarios[sid].is_active

C19_DriverEnds == <>GameOver

\* the loop ended in a later round with a win of the werewolves
C19_Witness ==
    /\ GameOver
    /\ last.result /= "good"
    /\ \A sid \in SessionIds : multi_scenarios[sid].round_count >= 2

\* the day_discussion entries of the current round, in ledger order
Turns(s) ==
    SelectSeq(s.scenario_log,
              LAMBDA e : e.phase = "day_discussion" /\ e.round = s.round_count)

AllFailed(s) == \A k \in 1..Len(Turns(s)) : Turns(s)[k].message = AIServiceError

\* C20: after a day_discussion turn whose generation call failed, the last
\* ledger entry is that speaker's turn for the current phase and round with
\* the failure text as its message, get_next_speaker returns the seat it
\* would return after a reply, a seat that has not spoken, and when every
\* turn of the round failed it returns None exactly when as many turns are
\* logged as seats live.
C20_FailedTurnRecorded ==
    \A sid \in SessionIds :
        LET s == multi_scenarios[sid]
            n == Len(s.scenario_log)
            next == get_next_speaker(s)
        IN  /\ s.phase = "day_discussion"
            /\ last.op = "process_player_message"
            /\ last.sid = sid
            /\ last.outcome = "exception"
            => /\ last.result = AIServiceError
               /\ n > 0
               /\ "message" \in DOMAIN s.scenario_log[n]
               /\ s.scenario_log[n].message = AIServiceError
               /\ s.scenario_log[n].phase = s.phase
               /\ s.scenario_log[n].round = s.round_count
               /\ s.scenario_log[n].player \in Names(s, AliveSeats(s))
               /\ NoRepeat(Speakers(s, "day_discussion"))
               /\ next = get_next_speaker(
                            [s EXCEPT !.scenario_log[n].message = AIReply])
               /\ next /= 0 =>
                     NameOf(s, next) \notin Range(Speakers(s, "day_discussion"))
               /\ AllFailed(s) =>
                     (next = 0 <=> Len(Turns(s)) = Cardinality(AliveSeats(s)))

\* every one of the twelve seats had a failed turn and no seat is left
C20_Witness ==
    \E sid \in SessionIds :
        LET s == multi_scenarios[sid]
        IN  /\ s.phase = "day_discussion"
            /\ last.op = "process_player_message"
            /\ last.outcome = "exception"
            /\ AllFailed(s)
            /\ Len(Turns(s)) = NumPlayers
            /\ Cardinality(AliveSeats(s)) = NumPlayers
            /\ get_next_speaker(s) = 0

\* the speaking order of a discussion: the sheriff's seat when it is alive,
\* then the other living seats in ascending seat order
DiscussionOrder(s) ==
    LET alive_players == get_alive_players(s)
        sheriff == IF s.sheriff = None THEN 0
                   ELSE AliveById(s, alive_players, s.sheriff)
    IN  IF sheriff = 0 THEN alive_players
        ELSE <<sheriff>> \o SelectSeq(alive_players, LAMBDA i : i /= sheriff)

\* C21: in day_discussion, with one ledger entry logged for each seat
\* get_next_speaker returned, the seats that spoke and the seat returned
\* next follow the order: the elected sheriff first when that seat is alive,
\* then the remaining living seats in ascending seat order; with a dead
\* sheriff all living seats in ascending seat order.
C21_SheriffThenSeatOrder ==
    \A sid \in SessionIds :
        LET s == multi_scenarios[sid]
            spoke == Speakers(s, "day_discussion")
            order == DiscussionOrder(s)
        IN  s.phase = "day_discussion" =>
              /\ Len(spoke) <= Len(order)
              /\ \A k \in 1..Len(spoke) : spoke[k] = NameOf(s, order[k])
              /\ get_next_speaker(s) =
                    IF Len(spoke) < Len(order) THEN order[Len(spoke) + 1]
                    ELSE 0

C23_NextSpeakerReadsOnly ==
    [][\A sid \in SessionIds :
          Step("get_next_speaker", sid) =>
            /\ multi_scenarios'[sid] = multi_scenarios[sid]
            /\ last'.result = SpeakerName(multi_scenarios[sid])
            /\ last.op = "get_next_speaker" /\ last.sid = sid =>
                  last'.result = last.result]_vars

\* a seat was returned in a discussion in which others have spoken
C23_Witness ==
    \E sid \in SessionIds :
        LET s == multi_scenarios[sid]
        IN  /\ last.op = "get_next_speaker"
            /\ last.result /= None
            /\ s.phase = "day_discussion"
            /\ Len(Speakers(s, "day_discussion")) >= 2
            /\ last.result \notin Range(Speakers(s, "day_discussion"))

\* the scenarios a night resolution of s can leave behind, s itself when s
\* is not in a night phase
AfterNight(s) == IF IsNightPhase(s) THEN ProcessNightActions(s) ELSE {s}

OnePotion(s) ==
    /\ ~(s.saved_tonight /= None /\ s.poisoned_tonight /= None)
    /\ s.saved_tonight /= None =>
          /\ s.saved_tonight = s.killed_tonight
          /\ ~s.antidote

\* C24: in every scenario, and in every scenario a night resolution can
\* leave behind, saved_tonight and poisoned_tonight are not both set, and
\* when saved_tonight is set it equals killed_tonight and the antidote is
\* spent.
C24_OnePotionPerNight ==
    \A sid \in SessionIds :
        /\ OnePotion(multi_scenarios[sid])
        /\ \A s2 \in AfterNight(multi_scenarios[sid]) : OnePotion(s2)

\* a night resolved with the antidote used while the poison is still held
C24_Witness ==
    \E sid \in SessionIds :
        LET s == multi_scenarios[sid]
        IN  /\ last.op = "process_night_actions"
            /\ s.saved_tonight /= None
            /\ s.saved_tonight = s.killed_tonight
            /\ s.poison
            /\ s.poisoned_tonight = None

\* C25: in every scenario a night resolution can leave behind,
\* poisoned_tonight, when set, names a seat that was alive before the
\* resolution, not the witch and not the seat named by killed_tonight, and
\* at most two seats died.
C25_PoisonTargetEligible ==
    \A sid \in SessionIds :
        LET s == multi_scenarios[sid]
        IN  IsNightPhase(s) =>
              \A s2 \in ProcessNightActions(s) :
                  /\ s2.poisoned_tonight /= None =>
                        /\ s2.poisoned_tonight \in Names(s, AliveSeats(s))
                        /\ Witches(s) /= <<>>
                        /\ s2.poisoned_tonight /= NameOf(s, Witches(s)[1])
                        /\ s2.poisoned_tonight /= s2.killed_tonight
                  /\ AliveSeats(s2) \subseteq AliveSeats(s)
                  /\ Cardinality(AliveSeats(s) \ AliveSeats(s2)) <= 2

\* a night resolved with a kill and a poisoning: two seats died
C25_Witness ==
    \E sid \in SessionIds :
        LET s == multi_scenarios[sid]
            n == Len(s.scenario_log)
        IN  /\ last.op = "process_night_actions"
            /\ s.killed_tonight /= None
            /\ s.poisoned_tonight /= None
            /\ s.poisoned_tonight /= s.killed_tonight
            /\ s.scenario_log[n].phase = "night_result"
            /\ Len(s.scenario_log[n].deaths) = 2
            /\ Cardinality(AliveSeats(s)) = NumPlayers - 2

\* C26: in a night scenario with a living witch who holds the poison and in
\* which no kill can take place (killed_tonight stays None in every
\* outcome), the poison decision is still evaluated: some outcome of the
\* night resolution sets poisoned_tonight and spends the poison.
C26_PoisonWithoutKill ==
    \A sid \in SessionIds :
        LET s == multi_scenarios[sid]
        IN  /\ IsNightPhase(s)
            /\ Witches(s) /= <<>>
            /\ s.poison
            /\ \A s2 \in ProcessNightActions(s) : s2.killed_tonight = None
            => \E s2 \in ProcessNightActions(s) :
                  s2.poisoned_tonight /= None /\ ~s2.poison

\* the name of the living witch of s, None without one
WitchName(s) == IF Witches(s) = <<>> THEN None ELSE NameOf(s, Witches(s)[1])

\* C27: no outcome of a night resolution in the night phase leaves
\* saved_tonight naming the witch's own seat, while in first_night, with a
\* living witch holding the antidote, some outcome does.
C27_SelfSaveOnlyFirstNight ==
    \A sid \in SessionIds :
        LET s == multi_scenarios[sid]
        IN  /\ s.phase = "night" /\ Witches(s) /= <<>> =>
                  \A s2 \in ProcessNightActions(s) :
                      s2.saved_tonight /= WitchName(s)
            /\ s.phase = "first_night" /\ Witches(s) /= <<>> /\ s.antidote =>
                  \E s2 \in ProcessNightActions(s) :
                      s2.saved_tonight = WitchName(s)

\* a living seer has another living seat to check
SeerCanCheck(s) == Seers(s) /= <<>> /\ Cardinality(AliveSeats(s)) >= 2

\* the seer_checks record rec is truthful and eligible in scenario s
TruthfulCheck(s, rec) ==
    LET seat == PlayerByName(s, rec.target)
    IN  /\ seat \in AliveSeats(s)
        /\ seat /= Seers(s)[1]
        /\ rec.result = IF s.players[seat].role = "werewolf"
                         THEN "werewolf" ELSE "good"
        /\ rec.night = s.round_count

\* a night resolution of s left s2: the records of s are kept and, when
\* the seer can check, one truthful record is appended
CheckAppended(s, s2) ==
    /\ IsPrefix(s.seer_checks, s2.seer_checks)
    /\ Len(s2.seer_checks) =
          Len(s.seer_checks) + (IF SeerCanCheck(s) THEN 1 ELSE 0)
    /\ SeerCanCheck(s) =>
          TruthfulCheck(s, s2.seer_checks[Len(s2.seer_checks)])

\* C28: a night resolution appends exactly one record to seer_checks when
\* the seer and another seat are alive and none otherwise; the record names
\* a seat alive at that time other than the seer, its result is werewolf
\* exactly for a werewolf seat and its round is round_count; no other call
\* changes seer_checks, and no call changes or removes a record.
C28_SeerChecksTruthful ==
    [][\A sid \in SessionIds :
          LET s == multi_scenarios[sid]
              t == multi_scenarios'[sid]
          IN  /\ IsPrefix(s.seer_checks, t.seer_checks)
              /\ IF Step("process_night_actions", sid) /\ IsNightPhase(s)
                 THEN CheckAppended(s, t)
                 ELSE t.seer_checks = s.seer_checks
              /\ IsNightPhase(s) =>
                    \A s2 \in ProcessNightActions(s) : CheckAppended(s, s2)]_vars

\* a night resolved in which the seer found a werewolf
C28_Witness ==
    \E sid \in SessionIds :
        LET s == multi_scenarios[sid]
        IN  /\ last.op = "process_night_actions"
            /\ Len(s.seer_checks) = 1
            /\ s.seer_checks[1].result = "werewolf"
            /\ s.seer_checks[1].night = s.round_count
            /\ s.players[PlayerByName(s, s.seer_checks[1].target)].role
                  = "werewolf"

\* the names seer_checks holds as targets
CheckedNames(s) == {s.seer_checks[k].target : k \in 1..Len(s.seer_checks)}

\* the living seats other than the seer that no record names
Unchecked(s) ==
    {i \in AliveSeats(s) :
        i /= Seers(s)[1] /\ NameOf(s, i) \notin CheckedNames(s)}

\* C29: in every outcome of a night resolution in which the seer checks,
\* the seat checked is one no earlier record names whenever such a living
\* seat other than the seer exists; a seat checked before is chosen only
\* when there is none.
C29_UncheckedFirst ==
    \A sid \in SessionIds :
        LET s == multi_scenarios[sid]
        IN  IsNightPhase(s) /\ SeerCanCheck(s) =>
              \A s2 \in ProcessNightActions(s) :
                  LET target == s2.seer_checks[Len(s2.seer_checks)].target
                  IN  /\ Len(s2.seer_checks) = Len(s.seer_checks) + 1
                      /\ Unchecked(s) /= {} =>
                            PlayerByName(s, target) \in Unchecked(s)
                      /\ target \in CheckedNames(s) => Unchecked(s) = {}

\* after a night resolution with a check, the checked seat still alive, the
\* next resolution of the same night checks another seat
C29_Witness ==
    \E sid \in SessionIds :
        LET s == multi_scenarios[sid]
        IN  /\ last.op = "process_night_actions"
            /\ IsNightPhase(s)
            /\ SeerCanCheck(s)
            /\ Len(s.seer_checks) = 1
            /\ PlayerByName(s, s.seer_checks[1].target) \in AliveSeats(s)
            /\ \E s2 \in ProcessNightActions(s) :
                  /\ Len(s2.seer_checks) = 2
                  /\ s2.seer_checks[2].target /= s2.seer_checks[1].target

\* a living werewolf and a living seat of another role exist
KillPossible(s) ==
    /\ AliveSeats(s) \cap SeatsWithRole(s, {"werewolf"}) /= {}
    /\ AliveSeats(s) \ SeatsWithRole(s, {"werewolf"}) /= {}

KillEntries(log) ==
    Cardinality({k \in 1..Len(log) : log[k].phase = "werewolf_kill"})

\* C30: in every outcome of a night resolution killed_tonight is set
\* exactly when a werewolf and a seat of another role were alive; it then
\* names a seat that was alive and is no werewolf, and one werewolf_kill
\* ledger entry is appended in that case and none otherwise.
C30_KillIffPossible ==
    \A sid \in SessionIds :
        LET s == multi_scenarios[sid]
        IN  IsNightPhase(s) =>
              \A s2 \in ProcessNightActions(s) :
                  /\ s2.killed_tonight /= None <=> KillPossible(s)
                  /\ s2.killed_tonight /= None =>
                        PlayerByName(s, s2.killed_tonight) \in
                            AliveSeats(s) \ SeatsWithRole(s, {"werewolf"})
                  /\ KillEntries(NewLog(s, s2)) =
                        IF KillPossible(s) THEN 1 ELSE 0

\* a night resolved with a kill that landed on a seat that is no werewolf
C30_Witness ==
    \E sid \in SessionIds :
        LET s == multi_scenarios[sid]
        IN  /\ last.op = "process_night_actions"
            /\ s.killed_tonight /= None
            /\ s.saved_tonight = None
            /\ KillEntries(s.scenario_log) = 1
            /\ PlayerByName(s, s.killed_tonight) \notin AliveSeats(s)
            /\ s.players[PlayerByName(s, s.killed_tonight)].role /= "werewolf"

\* the night_result entries of a ledger
NightSummaries(log) == SelectSeq(log, LAMBDA e : e.phase = "night_result")

\* the seats a resolution of s that left s2 killed
Died(s, s2) == AliveSeats(s) \ AliveSeats(s2)

\* C31 (as claimed): every outcome of a night resolution in a night phase
\* appends exactly one night summary entry, which lists the seats that died
\* and lists none (a peaceful night) when nobody died.
C31_OneSummaryPerNight ==
    \A sid \in SessionIds :
        LET s == multi_scenarios[sid]
        IN  IsNightPhase(s) =>
              \A s2 \in ProcessNightActions(s) :
                  LET summaries == NightSummaries(NewLog(s, s2))
                  IN  /\ Len(summaries) = 1
                      /\ Range(summaries[1].deaths) = Names(s, Died(s, s2))

\* C31 (amended): every outcome of a night resolution in a night phase
\* appends at most one night summary entry: exactly one, the last entry of
\* the ledger and listing the seats that died, when somebody died, and none
\* when nobody died.
C31_SummaryOnlyWithDeaths ==
    \A sid \in SessionIds :
        LET s == multi_scenarios[sid]
        IN  IsNightPhase(s) =>
              \A s2 \in ProcessNightActions(s) :
                  LET summaries == NightSummaries(NewLog(s, s2))
                      n == Len(s2.scenario_log)
                  IN  IF Died(s, s2) = {} THEN summaries = <<>>
                      ELSE /\ Len(summaries) = 1
                           /\ s2.scenario_log[n] = summaries[1]
                           /\ Range(summaries[1].deaths) =
                                 Names(s, Died(s, s2))
                           /\ summaries[1].round = s.round_count

\* a night resolved in which the victim was saved and nobody poisoned: no
\* seat died and the ledger holds no summary of the night
C31_Witness ==
    \E sid \in SessionIds :
        LET s == multi_scenarios[sid]
        IN  /\ last.op = "process_night_actions"
            /\ s.killed_tonight /= None
            /\ s.saved_tonight = s.killed_tonight
            /\ s.poisoned_tonight = None
            /\ AliveSeats(s) = 1..NumPlayers
            /\ s.scenario_log /= <<>>
            /\ NightSummaries(s.scenario_log) = <<>>

\* C32: a call of vote_for_sheriff with a non-empty candidate list sets
\* sheriff to one of the recorded sheriff_candidates, and once sheriff is
\* set no advance_phase, process_night_actions, handle_voting_phase or
\* check_game_end call clears or changes it; no outcome of a night
\* resolution, which starts by resetting killed_tonight, saved_tonight and
\* poisoned_tonight, holds another sheriff than the scenario it started
\* from.
C32_SheriffElectedAndKept ==
    [][\A sid \in SessionIds :
          LET s == multi_scenarios[sid]
              t == multi_scenarios'[sid]
          IN  /\ Step("vote_for_sheriff", sid) /\ s.sheriff_candidates /= <<>>
                    => /\ t.sheriff \in Range(s.sheriff_candidates)
                       /\ t.sheriff_candidates = s.sheriff_candidates
              /\ s.sheriff /= None
                 /\ last'.op \in {"advance_phase", "process_night_actions",
                                  "handle_voting_phase", "check_game_end"}
                    => t.sheriff = s.sheriff
              /\ s.sheriff /= None /\ IsNightPhase(s)
                    => \A s2 \in ProcessNightActions(s) :
                           s2.sheriff = s.sheriff]_vars

\* the game stands in the night that follows a day vote, the sheriff of
\* the election in office, and the resolution of this night sets
\* killed_tonight anew
C32_Witness ==
    \E sid \in SessionIds :
        LET s == multi_scenarios[sid]
        IN  /\ last.op = "advance_phase"
            /\ s.phase = "night"
            /\ CountLog(s, "voting_result") = 1
            /\ s.sheriff /= None
            /\ s.sheriff \in Range(s.sheriff_candidates)
            /\ \E s2 \in ProcessNightActions(s) :
                  s2.killed_tonight /= None /\ s2.sheriff = s.sheriff

\* the hunter_shoot entries of a ledger
HunterShots(s) == SelectSeq(s.scenario_log, LAMBDA e : e.phase = "hunter_shoot")

\* the names the ledger gives as dead by night, by day vote and by a shot
NightDeaths(s) ==
    UNION {Range(e.deaths) : e \in Range(NightSummaries(s.scenario_log))}

VotedOut(s) ==
    {e.eliminated : e \in {x \in Range(s.scenario_log) :
                              x.phase = "voting_result"}}

ShotDead(s) == {e.target : e \in Range(HunterShots(s))}

\* C33: in every state of a scenario the ledger holds at most one
\* hunter_shoot entry; its hunter is the dead hunter seat and its target
\* another dead seat; every dead seat died by night, by a day vote or as the
\* target of that one shot, so at most one seat was eliminated by a shot.
C33_HunterShootsOnce ==
    \A sid \in SessionIds :
        LET s == multi_scenarios[sid]
            dead == (1..NumPlayers) \ AliveSeats(s)
        IN  /\ Len(HunterShots(s)) <= 1
            /\ Cardinality(ShotDead(s)) <= 1
            /\ \A k \in 1..Len(HunterShots(s)) :
                  LET hunter == PlayerByName(s, HunterShots(s)[k].hunter)
                      target == PlayerByName(s, HunterShots(s)[k].target)
                  IN  /\ s.players[hunter].role = "hunter"
                      /\ hunter \in dead
                      /\ target \in dead
                      /\ target /= hunter
            /\ Names(s, dead) \subseteq
                  NightDeaths(s) \cup VotedOut(s) \cup ShotDead(s)
            /\ Cardinality(dead) <=
                  Cardinality(NightDeaths(s) \cup VotedOut(s))
                      + Len(HunterShots(s))

\* the hunter was voted out and shot, and two more day votes were held
\* after the shot
C33_Witness ==
    \E sid \in SessionIds :
        LET s == multi_scenarios[sid]
        IN  /\ last.op = "handle_voting_phase"
            /\ Len(s.scenario_log) = 4
            /\ s.scenario_log[1].phase = "hunter_shoot"
            /\ s.scenario_log[3].phase = "voting_result"
            /\ s.scenario_log[4].phase = "voting_result"
            /\ Cardinality(AliveSeats(s)) = NumPlayers - 4

\* C34: hunter_can_shoot is true in every state in which no hunter shot has
\* been fired and false in every state in which one has been fired.
C34_HunterCanShootConsumed ==
    \A sid \in SessionIds :
        LET s == multi_scenarios[sid]
        IN  s.hunter_can_shoot <=> HunterShots(s) = <<>>

\* the living hunter seats of s
Hunters(s) == AliveSeats(s) \cap SeatsWithRole(s, {"hunter"})

NightResolvedOnce(calls) ==
    \A k \in 1..Len(calls) :
        calls[k].op = "advance_phase"
        /\ calls[k].phase \in {"first_night", "night"} =>
            Cardinality({j \in 1..(k - 1) :
                            /\ calls[j].op = "process_night_actions"
                            /\ \A i \in j..(k - 1) :
                                  /\ calls[i].phase = calls[k].phase
                                  /\ calls[i].op /= "advance_phase"}) = 1

\* C36: in the real-time driver every handler run (create_scenario, and
\* next_turn with the tally vote it triggers) that advances past first_night
\* or night has called process_night_actions exactly once in that phase
\* before the advance.
C36_NightResolvedBeforeAdvance ==
    \A sid \in SessionIds :
        last.sid = sid => NightResolvedOnce(last.calls)

\* C37: a tally vote of the real-time driver that eliminates the idiot
\* while idiot_revealed is false leaves that seat alive and sets
\* idiot_revealed; one that eliminates the hunter while hunter_can_shoot is
\* true and another seat is alive kills a second living seat; the seat
\* eliminated holds the maximum number of votes, and no vote is cast for
\* the voter's own seat or for a dead seat.
C37_TallyVoteInterrupts ==
    [][\A sid \in SessionIds :
          LET s == multi_scenarios[sid]
              t == multi_scenarios'[sid]
              vote == last'.vote
              eliminated == vote.eliminated
              gone == AliveSeats(s) \ AliveSeats(t)
          IN  Step("next_turn", sid) /\ eliminated /= 0 =>
                /\ s.players[eliminated].role = "idiot" /\ ~s.idiot_revealed
                      => /\ eliminated \in AliveSeats(t)
                         /\ t.idiot_revealed
                /\ s.players[eliminated].role = "hunter" /\ s.hunter_can_shoot
                   /\ Cardinality(AliveSeats(s)) >= 2
                      => /\ eliminated \in gone
                         /\ Cardinality(gone) = 2
                /\ \A k \in 1..Len(vote.votes) :
                      /\ VoteCount(vote.votes, vote.votes[k]) <=
                            VoteCount(vote.votes, eliminated)
                      /\ vote.votes[k] /= vote.alive[k]
                      /\ vote.votes[k] \in {0} \cup AliveSeats(s)]_vars

\* the scenario of a session that was created and resolved its first night
\* nights times, when no other session drew from the generator seeded with
\* seed
RunAlone(seed, nights) ==
    LET created == CreateWerewolfScenario(SeededShuffle(seed))
    IN  IF nights = 0 THEN created
        ELSE DrawFrom(ProcessNightActions(created), seed + 1)

\* C38: under a fixed seed the random outcomes of session s1 (its role
\* deal, and the kill, check, save and poison of its night) are those of
\* the run in which s1 is the only session, whatever calls for session s2
\* are interleaved with the calls for s1.
C38_SessionScopedRandomness ==
    "s1" \in SessionIds =>
        multi_scenarios["s1"] =
            RunAlone(last.seed, KillEntries(multi_scenarios["s1"].scenario_log))

\* C39: in every state eliminated_players holds exactly the names of the
\* dead seats, each once, and no name of a living seat; its length is 12
\* minus the number of living seats.
C39_EliminatedAreTheDead ==
    \A sid \in SessionIds :
        LET s == multi_scenarios[sid]
            dead == (1..NumPlayers) \ AliveSeats(s)
        IN  /\ Range(s.eliminated_players) = Names(s, dead)
            /\ NoRepeat(s.eliminated_players)
            /\ Range(s.eliminated_players) \cap Names(s, AliveSeats(s)) = {}
            /\ Len(s.eliminated_players) = 12 - Cardinality(AliveSeats(s))

\* a day vote picked the idiot, who revealed and lives, after another seat
\* had been eliminated
C39_Witness ==
    \E sid \in SessionIds :
        LET s == multi_scenarios[sid]
            n == Len(s.scenario_log)
        IN  /\ last.op = "handle_voting_phase"
            /\ n >= 2
            /\ s.scenario_log[n - 1].phase = "idiot_reveal"
            /\ s.idiot_revealed
            /\ PlayerByName(s, s.scenario_log[n - 1].idiot) \in AliveSeats(s)
            /\ Len(s.eliminated_players) >= 1
            /\ Cardinality(AliveSeats(s)) < NumPlayers

\* C40: is_active is true at creation; a step changes is_active only when
\* it is a check_game_end call; no step sets is_active from false to true;
\* and a check_game_end call changes nothing of the scenario but is_active
\* (phase, round, seats, eliminated_players, ledger and night state stay).
C40_IsActiveOnlyByCheckGameEnd ==
    [][\A sid \in SessionIds :
          LET s == multi_scenarios[sid]
              t == multi_scenarios'[sid]
          IN  /\ last.op = "create_werewolf_scenario" => s.is_active
              /\ t.is_active /= s.is_active => Step("check_game_end", sid)
              /\ ~s.is_active => ~t.is_active
              /\ Step("check_game_end", sid) =>
                    /\ t = [s EXCEPT !.is_active = t.is_active]
                    /\ t.is_active =
                          (s.is_active /\ CheckGameEndResult(s) = None)]_vars

\* the game was ended by check_game_end, and a later advance_phase call
\* left is_active false
C40_Witness ==
    \E sid \in SessionIds :
        LET s == multi_scenarios[sid]
        IN  /\ last.op = "advance_phase"
            /\ ~s.is_active
            /\ CheckGameEndResult(s) /= None
            /\ Len(s.eliminated_players) >= 4

====
